---- MODULE Spec2Model ----
(***************************************************************************)
(* A model of basic.py: the lexer (Position, Token, Lexer), the result     *)
(* wrapper (ParseResult), the recursive-descent parser (Parser) and the    *)
(* entry point run(fn, text).                                              *)
(*                                                                         *)
(* One behaviour is one call run(fn, text), executed statement group by    *)
(* statement group.  The parser's recursion is an explicit stack of        *)
(* frames; a callee hands its ParseResult back in ret.  Python offsets are *)
(* kept zero-based: text[i] in the source is text[i + 1] here.             *)
(***************************************************************************)
EXTENDS Integers, Sequences, FiniteSets, TLC

VARIABLES
    text,          \* run's argument text (Lexer.text, Position.ftxt)
    pc,            \* where run() stands: make_tokens, make_number, run, parse, done
    pos,           \* Lexer.pos, the one Position object the lexer mutates in place
    current_char,  \* Lexer.current_char
    tokens,        \* make_tokens' list, then Parser.tokens
    error,         \* the error slot of make_tokens' returned pair
    num_str,       \* make_number's local num_str
    dot_count,     \* make_number's local dot_count
    pos_start,     \* make_number's local pos_start
    tok_idx,       \* Parser.tok_idx
    current_tok,   \* Parser.current_tok
    stack,         \* the parser's call stack, innermost call last
    ret,           \* the ParseResult the last finished call returned
    result,        \* the pair run() returned
    first          \* the pair an earlier call of run() returned on the bare text

vars == <<text, pc, pos, current_char, tokens, error, num_str, dot_count,
          pos_start, tok_idx, current_tok, stack, ret, result, first>>

-----------------------------------------------------------------------------
(* Bounds of the explored inputs.                                          *)

MaxLen == 4
MaxOps == 4
MaxNumLen == 4

\* Characters the arbitrary texts are built from: a digit, the dot, one
\* operator of each tier, both parentheses, a blank, a newline and a
\* character no token starts with.
Alphabet == {"1", ".", "+", "*", "(", ")", " ", "\n", "a"}

\* Characters of the purely numeric texts.
NumChars == {"0", "1", "5", "."}

\* Operands and operators of the operator chains  1 op 2 op 3 ...: the
\* j-th operand is the digit j, every operator is any of the four.
ChainDigit(j) == <<"1", "2", "3", "4", "5", "6", "7", "8", "9">>[j]

ChainOps == {"+", "-", "*", "/"}

Texts == UNION {[1..n -> Alphabet] : n \in 0..MaxLen}

NumberTexts == UNION {[1..n -> NumChars] : n \in 0..MaxNumLen}

Chains ==
    UNION {{[i \in 1..(2 * k + 1) |->
                IF i % 2 = 1 THEN ChainDigit((i + 1) \div 2) ELSE o[i \div 2]] :
              o \in [1..k -> ChainOps]} :
           k \in 1..MaxOps}

-----------------------------------------------------------------------------
(* Values.                                                                 *)

\* Python's None where an object is expected, and where a character is.
None == [kind |-> "None"]
NoneChar == "None"

TT_INT == "TT_INT"
TT_FLOAT == "FLOAT"
TT_PLUS == "PLUS"
TT_MINUS == "MINUS"
TT_MUL == "MUL"
TT_DIV == "DIV"
TT_LPAREN == "LPAREN"
TT_RPAREN == "RPAREN"
TT_EOF == "EOF"

DIGITS == {"0", "1", "2", "3", "4", "5", "6", "7", "8", "9"}

\* The characters make_tokens skips: "\t\n\r ".
WHITESPACE == {"\t", "\n", "\r", " "}

DigitValue(c) ==
    CASE c = "0" -> 0 [] c = "1" -> 1 [] c = "2" -> 2 [] c = "3" -> 3
      [] c = "4" -> 4 [] c = "5" -> 5 [] c = "6" -> 6 [] c = "7" -> 7
      [] c = "8" -> 8 [] c = "9" -> 9

\* int(num_str) on a string of decimal digits.
RECURSIVE PyInt(_)
PyInt(s) ==
    IF Len(s) = 0 THEN 0
    ELSE 10 * PyInt(SubSeq(s, 1, Len(s) - 1)) + DigitValue(s[Len(s)])

\* A float as the decimal m / 10^e with no trailing zero in m while e > 0.
RECURSIVE Normalize(_, _)
Normalize(m, e) ==
    IF e > 0 /\ m % 10 = 0 THEN Normalize(m \div 10, e - 1) ELSE <<m, e>>

\* float(num_str) on digits with at most one dot: the decimal value of the
\* string.
PyFloat(s) ==
    LET d == IF \E i \in 1..Len(s) : s[i] = "."
             THEN CHOOSE i \in 1..Len(s) : s[i] = "."
             ELSE Len(s) + 1
    IN  IF d > Len(s) THEN <<PyInt(s), 0>>
        ELSE Normalize(PyInt(SubSeq(s, 1, d - 1) \o SubSeq(s, d + 1, Len(s))),
                       Len(s) - d)

\* A token's value slot: empty, an int, or a float.
NoValue == <<>>
IntValue(n) == <<n>>

\* Position(idx, ln, col, fn, ftxt); fn and ftxt are the same in every
\* Position of one run (ftxt is text) and are not carried.
Position(idx, ln, col) == [idx |-> idx, ln |-> ln, col |-> col]

\* Mutant of PositionAdvance: a newline starts a line but the column runs on.
PositionAdvanceNoColumnReset(p, ch) ==
    [idx |-> p.idx + 1,
     ln  |-> IF ch = "\n" THEN p.ln + 1 ELSE p.ln,
     col |-> p.col + 1]

\* Position.advance(current_char): the advanced position.
PositionAdvance(p, ch) ==
    [idx |-> p.idx + 1,
     ln  |-> IF ch = "\n" THEN p.ln + 1 ELSE p.ln,
     col |-> IF ch = "\n" THEN 0 ELSE p.col + 1]

\* A reference to the lexer's own Position object (self.pos handed over
\* without copy()): whoever holds it sees every later advance.
SelfPos == [ref |-> "Lexer.pos"]

\* The Position a stored position slot shows when it is read.
Deref(p) == IF p = SelfPos THEN pos ELSE p

\* Token(type_, value, pos_start, pos_end).  pos_start is copied; pos_end is
\* pos_start advanced by one unless a pos_end is given, which is stored as
\* it is handed in.
Token(type_, value, p_start, p_end) ==
    [type      |-> type_,
     value     |-> value,
     pos_start |-> IF p_start # None THEN Deref(p_start) ELSE None,
     pos_end   |-> IF p_end # None THEN p_end
                   ELSE IF p_start # None
                        THEN PositionAdvance(Deref(p_start), NoneChar)
                        ELSE None]

\* Error(pos_start, pos_end, error_name, details); both positions are stored
\* as handed in.
IllegalCharError(p_start, p_end, details) ==
    [error_name |-> "Illegal Character", details |-> details,
     pos_start |-> p_start, pos_end |-> p_end]

InvalidSyntaxError(p_start, p_end, details) ==
    [error_name |-> "Invalid Syntax", details |-> details,
     pos_start |-> p_start, pos_end |-> p_end]

NumberNode(token) == [kind |-> "NumberNode", token |-> token]

BinOpNode(left_node, op_tok, right_node) ==
    [kind |-> "BinOpNode", left_node |-> left_node, op_tok |-> op_tok,
     right_node |-> right_node]

UnaryOpNode(op_tok, node) ==
    [kind |-> "UnaryOpNode", op_tok |-> op_tok, node |-> node]

\* ParseResult(): both slots empty.
ParseResult == [error |-> None, node |-> None]

\* Mutant of Register: the sub-result's error is not taken over.
RegisterDropsError(self, res) == [self |-> self, node |-> res.node]

\* ParseResult.register(res) for a ParseResult res: the receiver afterwards
\* and the node handed back.
Register(self, res) ==
    [self |-> IF res.error # None THEN [self EXCEPT !.error = res.error]
              ELSE self,
     node |-> res.node]

\* ParseResult.success(node) and ParseResult.failure(error).
Success(self, node) == [self EXCEPT !.node = node]

Failure(self, err) == [self EXCEPT !.error = err]

-----------------------------------------------------------------------------
(* The lexer.                                                              *)

\* text[idx] if idx < len(text) else None
CharAt(t, idx) == IF idx < Len(t) THEN t[idx + 1] ELSE NoneChar

\* The single-character tokens of make_tokens.
CharTokenType(c) ==
    CASE c = "+" -> TT_PLUS
      [] c = "-" -> TT_MINUS
      [] c = "*" -> TT_MUL
      [] c = "/" -> TT_DIV
      [] c = "(" -> TT_LPAREN
      [] c = ")" -> TT_RPAREN

\* Lexer.advance(): the position moves past current_char, which is re-read.
LexerAdvance ==
    /\ pos' = PositionAdvance(pos, current_char)
    /\ current_char' = CharAt(text, pos'.idx)

\* The state run(fn, t) is in once Lexer(fn, t) is constructed.
StartRun(t, earlier) ==
    LET p == PositionAdvance(Position(-1, 0, -1), NoneChar)
    IN  /\ text = t
        /\ pc = "make_tokens"
        /\ pos = p
        /\ current_char = CharAt(t, p.idx)
        /\ tokens = <<>>
        /\ error = None
        /\ num_str = <<>>
        /\ dot_count = 0
        /\ pos_start = None
        /\ tok_idx = -1
        /\ current_tok = None
        /\ stack = <<>>
        /\ ret = None
        /\ result = None
        /\ first = earlier

Init == \E t \in Texts \cup Chains \cup NumberTexts : StartRun(t, None)

LexerUnchanged == UNCHANGED <<text, tok_idx, current_tok, stack, ret, result, first>>

\* make_tokens: a whitespace character is skipped.
SkipWhitespace ==
    /\ pc = "make_tokens"
    /\ current_char \in WHITESPACE
    /\ LexerAdvance
    /\ UNCHANGED <<pc, tokens, error, num_str, dot_count, pos_start>>
    /\ LexerUnchanged

\* make_tokens calls make_number, which sets up its locals.
MakeNumberStart ==
    /\ pc = "make_tokens"
    /\ current_char \in DIGITS
    /\ pc' = "make_number"
    /\ num_str' = <<>>
    /\ dot_count' = 0
    /\ pos_start' = pos
    /\ UNCHANGED <<pos, current_char, tokens, error>>
    /\ LexerUnchanged

\* Whether make_number's loop takes another character.
NumberContinues(ch, dots) ==
    /\ ch # NoneChar
    /\ ch \in DIGITS \cup {"."}
    /\ ~(ch = "." /\ dots = 1)

\* Mutant of NumStrNext: the dot is counted but not written to num_str.
NumStrNextWithoutDot(s, ch) == IF ch = "." THEN s ELSE Append(s, ch)

\* num_str after the loop body took ch.
NumStrNext(s, ch) == IF ch = "." THEN Append(s, ".") ELSE Append(s, ch)

\* One pass of make_number's loop.
MakeNumberStep ==
    /\ pc = "make_number"
    /\ NumberContinues(current_char, dot_count)
    /\ dot_count' = IF current_char = "." THEN dot_count + 1 ELSE dot_count
    /\ num_str' = NumStrNext(num_str, current_char)
    /\ LexerAdvance
    /\ UNCHANGED <<pc, tokens, error, pos_start>>
    /\ LexerUnchanged

\* The token make_number returns; its pos_end is self.pos itself.
NumberToken(s, dots, p_start) ==
    IF dots = 0 THEN Token(TT_INT, IntValue(PyInt(s)), p_start, SelfPos)
    ELSE Token(TT_FLOAT, PyFloat(s), p_start, SelfPos)

\* make_number's loop ends; make_tokens appends the returned token.
MakeNumberReturn ==
    /\ pc = "make_number"
    /\ ~NumberContinues(current_char, dot_count)
    /\ tokens' = Append(tokens, NumberToken(num_str, dot_count, pos_start))
    /\ pc' = "make_tokens"
    /\ UNCHANGED <<pos, current_char, error, num_str, dot_count, pos_start>>
    /\ LexerUnchanged

\* make_tokens: one of + - * / ( ) becomes a token and is passed.
MakeOperatorToken ==
    /\ pc = "make_tokens"
    /\ current_char \in {"+", "-", "*", "/", "(", ")"}
    /\ tokens' = Append(tokens, Token(CharTokenType(current_char), NoValue, SelfPos, None))
    /\ LexerAdvance
    /\ UNCHANGED <<pc, error, num_str, dot_count, pos_start>>
    /\ LexerUnchanged

\* Mutant of IllegalCharAt: the error ends where it starts.
IllegalCharAtUnadvanced(p_start, ch) == IllegalCharError(p_start, p_start, ch)

\* The error make_tokens builds for the character at p_start; its pos_end is
\* self.pos itself, already advanced.
IllegalCharAt(p_start, ch) == IllegalCharError(p_start, SelfPos, ch)

\* make_tokens: any other character ends the scan with [] and an error.
MakeIllegalChar ==
    /\ pc = "make_tokens"
    /\ current_char # NoneChar
    /\ current_char \notin WHITESPACE \cup DIGITS \cup {"+", "-", "*", "/", "(", ")"}
    /\ LexerAdvance
    /\ tokens' = <<>>
    /\ error' = IllegalCharAt(pos, current_char)
    /\ pc' = "run"
    /\ UNCHANGED <<num_str, dot_count, pos_start>>
    /\ LexerUnchanged

\* Mutant of EofToken: the token ends where it starts.
EofTokenZeroWidth(p) == Token(TT_EOF, NoValue, p, p)

\* The end-of-input token for the lexer standing at p.
EofToken(p) == Token(TT_EOF, NoValue, p, None)

\* make_tokens: the text is used up; EOF is appended and the list returned.
MakeEof ==
    /\ pc = "make_tokens"
    /\ current_char = NoneChar
    /\ tokens' = Append(tokens, EofToken(pos))
    /\ LexerAdvance
    /\ pc' = "run"
    /\ UNCHANGED <<error, num_str, dot_count, pos_start>>
    /\ LexerUnchanged

-----------------------------------------------------------------------------
(* run() between the lexer and the parser, and the parser.                 *)

\* Mutant of ParserAdvance: current_tok is read before the cursor moves
\* (tokens[-1] is the last token).
ParserAdvanceReadsFirst(toks, idx, cur) ==
    [tok_idx     |-> idx + 1,
     current_tok |-> IF idx < Len(toks)
                     THEN (IF idx = -1 THEN toks[Len(toks)] ELSE toks[idx + 1])
                     ELSE cur]

\* Parser.advance(): the moved cursor and the refreshed current_tok.
ParserAdvance(toks, idx, cur) ==
    [tok_idx     |-> idx + 1,
     current_tok |-> IF idx + 1 < Len(toks) THEN toks[idx + 2] ELSE cur]

\* A call of parse, expr, term or factor that has just been entered; expr,
\* term and factor start by creating their ParseResult.
Frame(fn) ==
    [fn |-> fn, at |-> "start", res |-> ParseResult, left |-> None, tok |-> None]

\* bin_op's arguments: expr is bin_op(term, (PLUS, MINUS)), term is
\* bin_op(factor, (MUL, DIV)).
Func(fn) == IF fn = "expr" THEN "term" ELSE "factor"

ExprOps == {TT_PLUS, TT_MINUS}

TermOps == {TT_MUL, TT_DIV}

\* Mutant of Ops: both tiers accept all four operators.
OpsOfOneTier(fn) == ExprOps \cup TermOps

Ops(fn) == IF fn = "expr" THEN ExprOps ELSE TermOps

Top == stack[Len(stack)]

ParserUnchanged ==
    UNCHANGED <<text, pos, current_char, tokens, error, num_str, dot_count,
                pos_start, first>>

\* The innermost call carries on at label at with its locals updated.
Continue(frame) ==
    stack' = [stack EXCEPT ![Len(stack)] = frame]

\* The innermost call carries on and calls fn.
Call(frame, fn) ==
    stack' = Append([stack EXCEPT ![Len(stack)] = frame], Frame(fn))

\* The innermost call returns res to its caller.
Return(res) ==
    /\ stack' = SubSeq(stack, 1, Len(stack) - 1)
    /\ ret' = res

Advance ==
    LET a == ParserAdvance(tokens, tok_idx, current_tok)
    IN  /\ tok_idx' = a.tok_idx
        /\ current_tok' = a.current_tok

\* run: the lexer failed, (None, error) is returned.
RunLexError ==
    /\ pc = "run"
    /\ error # None
    /\ result' = [node |-> None, error |-> error]
    /\ pc' = "done"
    /\ UNCHANGED <<tok_idx, current_tok, stack, ret>>
    /\ ParserUnchanged

\* run: Parser(tokens) is constructed and parse() calls expr().
RunParse ==
    /\ pc = "run"
    /\ error = None
    /\ LET a == ParserAdvance(tokens, -1, None)
       IN  /\ tok_idx' = a.tok_idx
           /\ current_tok' = a.current_tok
    /\ stack' = <<[Frame("parse") EXCEPT !.at = "expr"], Frame("expr")>>
    /\ pc' = "parse"
    /\ UNCHANGED <<ret, result>>
    /\ ParserUnchanged

\* bin_op: func() is called for the left operand.
BinOpStart ==
    /\ pc = "parse"
    /\ Top.fn \in {"expr", "term"}
    /\ Top.at = "start"
    /\ Call([Top EXCEPT !.at = "left"], Func(Top.fn))
    /\ UNCHANGED <<pc, tok_idx, current_tok, ret, result>>
    /\ ParserUnchanged

\* bin_op: the left operand is registered; an error is returned at once.
BinOpLeft ==
    /\ pc = "parse"
    /\ Top.fn \in {"expr", "term"}
    /\ Top.at = "left"
    /\ LET r == Register(Top.res, ret)
       IN  IF r.self.error # None
           THEN Return(r.self)
           ELSE /\ Continue([Top EXCEPT !.res = r.self, !.left = r.node, !.at = "loop"])
                /\ ret' = None
    /\ UNCHANGED <<pc, tok_idx, current_tok, result>>
    /\ ParserUnchanged

\* bin_op's loop: an operator of this tier is consumed and func() called for
\* the right operand.
BinOpOperator ==
    /\ pc = "parse"
    /\ Top.fn \in {"expr", "term"}
    /\ Top.at = "loop"
    /\ current_tok.type \in Ops(Top.fn)
    /\ Advance
    /\ Call([Top EXCEPT !.tok = current_tok, !.at = "right"], Func(Top.fn))
    /\ UNCHANGED <<pc, ret, result>>
    /\ ParserUnchanged

\* bin_op's loop: the right operand is registered and folded into left.
BinOpRight ==
    /\ pc = "parse"
    /\ Top.fn \in {"expr", "term"}
    /\ Top.at = "right"
    /\ LET r == Register(Top.res, ret)
       IN  IF r.self.error # None
           THEN Return(r.self)
           ELSE /\ Continue([Top EXCEPT !.res = r.self, !.at = "loop",
                                        !.left = BinOpNode(Top.left, Top.tok, r.node)])
                /\ ret' = None
    /\ UNCHANGED <<pc, tok_idx, current_tok, result>>
    /\ ParserUnchanged

\* bin_op: no operator of this tier follows; res.success(left) is returned.
BinOpReturn ==
    /\ pc = "parse"
    /\ Top.fn \in {"expr", "term"}
    /\ Top.at = "loop"
    /\ current_tok.type \notin Ops(Top.fn)
    /\ Return(Success(Top.res, Top.left))
    /\ UNCHANGED <<pc, tok_idx, current_tok, result>>
    /\ ParserUnchanged

\* factor: a sign is consumed and factor() called for its operand.
FactorUnary ==
    /\ pc = "parse"
    /\ Top.fn = "factor"
    /\ Top.at = "start"
    /\ current_tok.type \in {TT_PLUS, TT_MINUS}
    /\ Advance
    /\ Call([Top EXCEPT !.tok = current_tok, !.at = "unary"], "factor")
    /\ UNCHANGED <<pc, ret, result>>
    /\ ParserUnchanged

\* factor: the sign's operand is registered and wrapped in a UnaryOpNode.
FactorAfterUnary ==
    /\ pc = "parse"
    /\ Top.fn = "factor"
    /\ Top.at = "unary"
    /\ LET r == Register(Top.res, ret)
       IN  IF r.self.error # None
           THEN Return(r.self)
           ELSE Return(Success(r.self, UnaryOpNode(Top.tok, r.node)))
    /\ UNCHANGED <<pc, tok_idx, current_tok, result>>
    /\ ParserUnchanged

\* factor: a number is consumed and returned as a NumberNode.
FactorNumber ==
    /\ pc = "parse"
    /\ Top.fn = "factor"
    /\ Top.at = "start"
    /\ current_tok.type \in {TT_INT, TT_FLOAT}
    /\ Advance
    /\ Return(Success(Top.res, NumberNode(current_tok)))
    /\ UNCHANGED <<pc, result>>
    /\ ParserUnchanged

\* factor: "(" is consumed and expr() called.
FactorLParen ==
    /\ pc = "parse"
    /\ Top.fn = "factor"
    /\ Top.at = "start"
    /\ current_tok.type = TT_LPAREN
    /\ Advance
    /\ Call([Top EXCEPT !.tok = current_tok, !.at = "paren"], "expr")
    /\ UNCHANGED <<pc, ret, result>>
    /\ ParserUnchanged

\* Mutant of ParenResult: the parentheses get a node of their own.
ParenResultWithNode(res, tok, node, cur) ==
    IF cur.type = TT_RPAREN THEN Success(res, UnaryOpNode(tok, node))
    ELSE Failure(res, InvalidSyntaxError(cur.pos_start, cur.pos_end, "Expected ')'"))

\* What factor returns for "(" expr, tok being the "(", once expr's node is
\* registered in res and the token after it is cur.
ParenResult(res, tok, node, cur) ==
    IF cur.type = TT_RPAREN THEN Success(res, node)
    ELSE Failure(res, InvalidSyntaxError(cur.pos_start, cur.pos_end, "Expected ')'"))

\* factor: the parenthesized expr is registered; ")" is consumed or missed.
FactorAfterParen ==
    /\ pc = "parse"
    /\ Top.fn = "factor"
    /\ Top.at = "paren"
    /\ LET r == Register(Top.res, ret)
       IN  IF r.self.error # None
           THEN /\ Return(r.self)
                /\ UNCHANGED <<tok_idx, current_tok>>
           ELSE /\ Return(ParenResult(r.self, Top.tok, r.node, current_tok))
                /\ IF current_tok.type = TT_RPAREN
                   THEN Advance
                   ELSE UNCHANGED <<tok_idx, current_tok>>
    /\ UNCHANGED <<pc, result>>
    /\ ParserUnchanged

\* factor: no factor starts with the current token.
FactorError ==
    /\ pc = "parse"
    /\ Top.fn = "factor"
    /\ Top.at = "start"
    /\ current_tok.type \notin {TT_PLUS, TT_MINUS, TT_INT, TT_FLOAT, TT_LPAREN}
    /\ Return(Failure(Top.res, InvalidSyntaxError(current_tok.pos_start,
                                                  current_tok.pos_end,
                                                  "Expected int or float")))
    /\ UNCHANGED <<pc, tok_idx, current_tok, result>>
    /\ ParserUnchanged

\* What parse() returns when expr() returned res and the current token is cur.
ParseOutcome(res, cur) ==
    IF res.error = None /\ cur.type # TT_EOF
    THEN Failure(res, InvalidSyntaxError(cur.pos_start, cur.pos_end,
                                         "Expected '+', '-', '*', '/' or EOF"))
    ELSE res

\* parse() checks for trailing input; run returns (ast.node, ast.error).
ParseReturn ==
    /\ pc = "parse"
    /\ Top.fn = "parse"
    /\ LET ast == ParseOutcome(ret, current_tok)
       IN  result' = [node |-> ast.node, error |-> ast.error]
    /\ stack' = <<>>
    /\ ret' = None
    /\ pc' = "done"
    /\ UNCHANGED <<tok_idx, current_tok>>
    /\ ParserUnchanged

\* A caller that got a tree and no error for text calls run() again on
\* "(" + text + ")", keeping the first pair.
RunParenthesized ==
    /\ pc = "done"
    /\ first = None
    /\ result.error = None
    /\ result.node # None
    /\ LET p == PositionAdvance(Position(-1, 0, -1), NoneChar)
           t == <<"(">> \o text \o <<")">>
       IN  /\ text' = t
           /\ pc' = "make_tokens"
           /\ pos' = p
           /\ current_char' = CharAt(t, p.idx)
    /\ tokens' = <<>>
    /\ error' = None
    /\ num_str' = <<>>
    /\ dot_count' = 0
    /\ pos_start' = None
    /\ tok_idx' = -1
    /\ current_tok' = None
    /\ stack' = <<>>
    /\ ret' = None
    /\ result' = None
    /\ first' = result

Next ==
    \/ SkipWhitespace
    \/ MakeNumberStart
    \/ MakeNumberStep
    \/ MakeNumberReturn
    \/ MakeOperatorToken
    \/ MakeIllegalChar
    \/ MakeEof
    \/ RunLexError
    \/ RunParse
    \/ BinOpStart
    \/ BinOpLeft
    \/ BinOpOperator
    \/ BinOpRight
    \/ BinOpReturn
    \/ FactorUnary
    \/ FactorAfterUnary
    \/ FactorNumber
    \/ FactorLParen
    \/ FactorAfterParen
    \/ FactorError
    \/ ParseReturn
    \/ RunParenthesized

Spec == Init /\ [][Next]_vars

-----------------------------------------------------------------------------
(* Notions the properties are stated with.                                 *)

\* make_tokens has returned, with a token list and no error.
Tokenized == pc \in {"run", "parse", "done"} /\ error = None

\* Zero-based offsets of the characters of t.
Offsets(t) == 0..(Len(t) - 1)

Min(S) == CHOOSE x \in S : \A y \in S : x <= y

Max(S) == CHOOSE x \in S : \A y \in S : x >= y

\* The characters the specification lets a text be made of.
LegalChars == DIGITS \cup {".", "+", "-", "*", "/", "(", ")"} \cup WHITESPACE

HasOutsideChar(t) == \E i \in Offsets(t) : t[i + 1] \notin LegalChars

FirstOutsideChar(t) == Min({i \in Offsets(t) : t[i + 1] \notin LegalChars})

\* The "." at offset i does not continue a number: no digit stands directly
\* before it, or the digits before it already follow a ".".
StrayDot(t, i) ==
    /\ t[i + 1] = "."
    /\ LET d == Min({j \in 0..i : \A k \in j..(i - 1) : t[k + 1] \in DIGITS})
       IN  d = i \/ (d > 0 /\ t[d] = ".")

\* The first offset at which no token can start.
FirstUnlexable(t) ==
    Min({i \in Offsets(t) : t[i + 1] \notin LegalChars \/ StrayDot(t, i)})

\* t is made of digits and at most one ".".
IsNumeric(t) ==
    /\ \A i \in Offsets(t) : t[i + 1] \in DIGITS \cup {"."}
    /\ Cardinality({i \in Offsets(t) : t[i + 1] = "."}) <= 1

HasDot(t) == \E i \in Offsets(t) : t[i + 1] = "."

\* The numeric parse of a numeric text: int(t) without a dot, float(t) with one.
NumericParse(t) == IF HasDot(t) THEN PyFloat(t) ELSE IntValue(PyInt(t))

\* How many characters of t, from offset i on, form one number literal:
\* digits and at most one "." (dots tells whether one was seen).
RECURSIVE LiteralLength(_, _, _)
LiteralLength(t, i, dots) ==
    IF i >= Len(t) THEN 0
    ELSE IF t[i + 1] \in DIGITS THEN 1 + LiteralLength(t, i + 1, dots)
    ELSE IF t[i + 1] = "." /\ dots = 0 THEN 1 + LiteralLength(t, i + 1, 1)
    ELSE 0

\* p is the position of offset p.idx in text: ln counts the newlines before
\* it and col is the distance from the character after the last of them.
Consistent(p) ==
    LET before == {i \in Offsets(text) : i < p.idx /\ text[i + 1] = "\n"}
    IN  /\ p.ln = Cardinality(before)
        /\ p.col = p.idx - Max({0} \cup {i + 1 : i \in before})

\* The tokens are numbers separated by binary operators, then EOF.
IsOperatorChain(toks) ==
    /\ Len(toks) % 2 = 0
    /\ toks[Len(toks)].type = TT_EOF
    /\ \A i \in 1..(Len(toks) - 1) :
          IF i % 2 = 1 THEN toks[i].type \in {TT_INT, TT_FLOAT}
          ELSE toks[i].type \in {TT_PLUS, TT_MINUS, TT_MUL, TT_DIV}

\* The reference parse of an operator chain (without its EOF): split at the
\* last "+" or "-" if there is one, else at the last "*" or "/".
RECURSIVE RefTree(_)
RefTree(toks) ==
    LET low  == {i \in 1..Len(toks) : toks[i].type \in {"PLUS", "MINUS"}}
        high == {i \in 1..Len(toks) : toks[i].type \in {"MUL", "DIV"}}
        at   == IF low # {} THEN Max(low) ELSE Max(high)
    IN  IF Len(toks) = 1 THEN NumberNode(toks[1])
        ELSE BinOpNode(RefTree(SubSeq(toks, 1, at - 1)), toks[at],
                       RefTree(SubSeq(toks, at + 1, Len(toks))))

\* A tree without its source positions: node kinds, token types, values.
RECURSIVE Shape(_)
Shape(n) ==
    CASE n.kind = "NumberNode" ->
           <<"NumberNode", n.token.type, n.token.value>>
      [] n.kind = "UnaryOpNode" ->
           <<"UnaryOpNode", n.op_tok.type, Shape(n.node)>>
      [] n.kind = "BinOpNode" ->
           <<"BinOpNode", Shape(n.left_node), n.op_tok.type, Shape(n.right_node)>>
      [] OTHER -> <<"None">>

ErrorOf(r) == IF r = None THEN None ELSE r.error

\* The syntax errors the parser holds: in the returned ParseResult, in the
\* ParseResult of a call in progress, or in the pair parse() handed to run.
ParserErrors ==
    ({ErrorOf(ret), ErrorOf(result)}
       \cup {stack[i].res.error : i \in 1..Len(stack)}) \ {None}

-----------------------------------------------------------------------------
(* The properties.                                                         *)

\* C1: run(fn, text) returns a pair with exactly one slot populated: with an
\* error (lexical, syntax, or the trailing-input error of parse) the node
\* slot is None, and with a node the error slot is None.
C1_ExactlyOneSlot ==
    pc = "done" =>
        /\ (result.error # None => result.node = None)
        /\ (result.node # None => result.error = None)
        /\ (result.node # None \/ result.error # None)

\* C2: every INT or FLOAT token of the returned sequence spans from the
\* offset of its first character to the offset just past its last one, and
\* scanning after its creation does not alter that span.
C2_NumberSpan ==
    Tokenized =>
        \A i \in 1..Len(tokens) :
            tokens[i].type \in {TT_INT, TT_FLOAT} =>
                Deref(tokens[i].pos_end).idx =
                    tokens[i].pos_start.idx
                      + LiteralLength(text, tokens[i].pos_start.idx, 0)

\* C3: for numbers separated by binary operators, parse returns the tree in
\* which "*" and "/" bind tighter than "+" and "-" and operators of one tier
\* fold to the left.
C3_PrecedenceAndLeftFold ==
    (pc = "done" /\ Tokenized /\ IsOperatorChain(tokens)) =>
        /\ result.error = None
        /\ result.node = RefTree(SubSeq(tokens, 1, Len(tokens) - 1))

C3_Witness ==
    /\ pc = "done"
    /\ Tokenized
    /\ IsOperatorChain(tokens)
    /\ Len(tokens) = 8
    /\ result.node.kind = "BinOpNode"
    /\ result.node.left_node.kind = "BinOpNode"
    /\ result.node.right_node.kind = "BinOpNode"

\* C4 as stated: every text of digits and at most one "." is tokenized
\* without error into one INT (no dot) or FLOAT (one dot) token and EOF, the
\* value being the numeric parse of the text.
C4_NumericText ==
    (pc = "run" /\ IsNumeric(text)) =>
        /\ error = None
        /\ Len(tokens) = 2
        /\ tokens[1].type = (IF HasDot(text) THEN TT_FLOAT ELSE TT_INT)
        /\ tokens[1].value = NumericParse(text)
        /\ tokens[2].type = TT_EOF

\* C4 amended: the same for every such text that begins with a digit.
C4_NumericTextFromDigit ==
    (pc = "run" /\ IsNumeric(text) /\ Len(text) > 0 /\ text[1] \in DIGITS) =>
        /\ error = None
        /\ Len(tokens) = 2
        /\ tokens[1].type = (IF HasDot(text) THEN TT_FLOAT ELSE TT_INT)
        /\ tokens[1].value = NumericParse(text)
        /\ tokens[2].type = TT_EOF

C4_Witness ==
    /\ pc = "run"
    /\ IsNumeric(text)
    /\ Len(text) = 4
    /\ text[1] \in DIGITS
    /\ text[3] = "."
    /\ Len(tokens) = 2
    /\ tokens[1].type = TT_FLOAT

\* C5 as stated: a text with a character outside the legal set fails with
\* Illegal Character and no tokens, the error spanning exactly the first
\* such character.
C5_IllegalCharSpan ==
    (pc = "run" /\ HasOutsideChar(text)) =>
        /\ error # None
        /\ error.error_name = "Illegal Character"
        /\ tokens = <<>>
        /\ error.pos_start.idx = FirstOutsideChar(text)
        /\ Deref(error.pos_end).idx = error.pos_start.idx + 1

\* C5 amended: such a text fails with Illegal Character and no tokens, the
\* error spanning exactly one character: the first at which no token can
\* start, which is the first outside character or a "." before it that does
\* not continue a number.
C5_FirstUnlexableSpan ==
    (pc = "run" /\ HasOutsideChar(text)) =>
        /\ error # None
        /\ error.error_name = "Illegal Character"
        /\ tokens = <<>>
        /\ error.pos_start.idx = FirstUnlexable(text)
        /\ Deref(error.pos_end).idx = error.pos_start.idx + 1

C5_Witness ==
    /\ pc = "run"
    /\ HasOutsideChar(text)
    /\ error # None
    /\ error.pos_start.idx > 0
    /\ error.pos_start.idx < FirstOutsideChar(text)

\* C6 as stated: after a successful tokenization the last token is EOF with
\* pos_start and pos_end both at offset len(text).
C6_EofZeroWidth ==
    Tokenized =>
        /\ tokens[Len(tokens)].type = TT_EOF
        /\ tokens[Len(tokens)].pos_start.idx = Len(text)
        /\ Deref(tokens[Len(tokens)].pos_end).idx = Len(text)

\* C6 amended: the last token is EOF, starts at offset len(text) and is one
\* character wide: its pos_end is at offset len(text) + 1.
C6_EofAtEnd ==
    Tokenized =>
        /\ tokens[Len(tokens)].type = TT_EOF
        /\ tokens[Len(tokens)].pos_start.idx = Len(text)
        /\ Deref(tokens[Len(tokens)].pos_end).idx = Len(text) + 1

C6_Witness ==
    /\ pc = "run"
    /\ error = None
    /\ Len(text) >= 2
    /\ Len(tokens) >= 3

\* C7: when run() parsed a text, run() on the text in parentheses succeeds
\* too and returns a tree of the same shape.
C7_ParenthesesTransparent ==
    (pc = "done" /\ first # None) =>
        /\ result.error = None
        /\ result.node # None
        /\ Shape(result.node) = Shape(first.node)

C7_Witness ==
    /\ pc = "done"
    /\ first # None
    /\ first.node.kind = "BinOpNode"
    /\ first.node.left_node.kind = "UnaryOpNode"

\* C8: once the parser holds a syntax error, the cursor no longer moves and
\* that error stays the only one, up to the pair parse() returns.
C8_FirstErrorWins ==
    [][(pc = "parse" /\ ParserErrors # {}) =>
          /\ tok_idx' = tok_idx
          /\ ParserErrors' = ParserErrors]_vars

C8_Witness ==
    /\ pc = "parse"
    /\ Len(stack) >= 5
    /\ ParserErrors # {}
    /\ tok_idx >= 2

\* C9: while and after the parser runs, the cursor is inside the token
\* sequence and current_tok is the token under it.
C9_CursorInside ==
    (pc \in {"parse", "done"} /\ Tokenized) =>
        /\ 0 <= tok_idx
        /\ tok_idx <= Len(tokens) - 1
        /\ current_tok = tokens[tok_idx + 1]

C9_Witness ==
    /\ pc = "done"
    /\ Tokenized
    /\ Len(tokens) >= 4
    /\ tok_idx = Len(tokens) - 1
    /\ result.error = None

\* C10: the lexer's position, and the start and end of every token and
\* error it produced, have ln and col consistent with idx and the text.
C10_PositionsConsistent ==
    /\ Consistent(pos)
    /\ pos_start # None => Consistent(pos_start)
    /\ \A i \in 1..Len(tokens) :
          Consistent(tokens[i].pos_start) /\ Consistent(Deref(tokens[i].pos_end))
    /\ error # None =>
          Consistent(error.pos_start) /\ Consistent(Deref(error.pos_end))

C10_Witness ==
    /\ pc = "run"
    /\ Len(tokens) >= 2
    /\ tokens[1].pos_start.ln = 1
    /\ tokens[1].pos_start.col = 1

====
